---- MODULE Spec2Model ----
(***************************************************************************)
(* Model of the bench package of gosuda/chaisql-benchmark: the Result      *)
(* aggregator (result.go), the five workload run functions (workloads.go)  *)
(* and the phase orchestrator Run / runPhase (runner.go).                  *)
(*                                                                         *)
(* Every call of a WorkloadFunc allocates one Result (newResult), one      *)
(* collector goroutine, one context and up to `conc` worker goroutines.    *)
(* The model keeps them per call: res[c], cpc[c], ctx[c], wk[c][w], so     *)
(* that goroutines of an earlier call are still represented after the      *)
(* main goroutine has moved on.                                            *)
(***************************************************************************)
EXTENDS Integers, Sequences, FiniteSets, TLC

\* ------------------------------------------------------------- bounds

\* Largest cfg.Concurrency explored.
MaxConc == 2

\* Largest cfg.TxBatch explored.
MaxBatch == 2

\* Largest duration time.Since may return (in ticks); 0 is possible.
MaxLat == 1

\* Number of worker loop iterations and failed set-up calls (generator,
\* shared statement) explored in one direct call of a run function.
MaxIters == 2

\* Total number of worker loop iterations and failed set-up calls explored
\* over one Run.
RunIters == 1

\* Capacity of the intake channel latCh (1<<16 in newResult); kept small
\* so that a full channel is reached.
ChanCap == 1

\* Longest sample set drawn for the statistics functions.
MaxSamples == 23

\* Largest key of table kv explored.
MaxKeys == 2

\* The keys a table FetchKeySnapshot is called against are drawn from 1..MaxRows.
MaxRows == 4

\* The largest limit FetchKeySnapshot is called with.
MaxLimit == 5

\* The clock advances from second 0 up to this second.
MaxNow == 1

\* Worker loop iterations explored over the passes of one insert phase.
PhaseIters == 2

\* ---------------------------------------------------- program constants

\* Key limit Run passes to FetchKeySnapshot.
SnapLimit == 2048

\* Number of buckets Pretty asks sparkline for.
PrettyBins == 14

\* Index of the last glyph of "▁▂▃▄▅▆▇█" (len(chars)-1); the full block.
FullBlock == 7

\* ------------------------------------------------------------ helpers

Min(a, b) == IF a <= b THEN a ELSE b

Max(a, b) == IF a >= b THEN a ELSE b

Range(s) == {s[i] : i \in DOMAIN s}

Repeat(x, n) == [i \in 1..n |-> x]

\* ------------------------------------------------ histogram + quantile

RECURSIVE InsertSorted(_, _)
InsertSorted(s, x) ==
    IF s = <<>> THEN <<x>>
    ELSE IF x < Head(s) THEN <<x>> \o s
    ELSE <<Head(s)>> \o InsertSorted(Tail(s), x)

\* slices.Sort / sort.Slice with s[i] < s[j]: the ascending permutation.
RECURSIVE SortAsc(_)
SortAsc(s) ==
    IF s = <<>> THEN <<>>
    ELSE InsertSorted(SortAsc(Tail(s)), Head(s))

\* int(float64(m) * q) for q = pct/100.  For q in {0.01, 0.50, 0.95, 0.99}
\* the float64 product truncates to the exact floor for every m below
\* 3,000,000, so the integer quotient is what the code computes.
QIndex(m, pct) == (m * pct) \div 100

\* quantile answering -1, not 0, for no samples.
QuantileEmptySentinel(samples, pct) ==
    IF Len(samples) = 0 THEN 0 - 1
    ELSE SortAsc(samples)[QIndex(Len(samples) - 1, pct) + 1]

\* quantile indexing the samples in arrival order, the sort left out.
QuantileUnsorted(samples, pct) ==
    IF Len(samples) = 0 THEN 0
    ELSE samples[QIndex(Len(samples) - 1, pct) + 1]

\* histogram.quantile: 0 for no samples, else the element at
\* int(float64(len-1)*q) of a sorted copy.
quantile(samples, pct) ==
    IF Len(samples) = 0 THEN 0
    ELSE SortAsc(samples)[QIndex(Len(samples) - 1, pct) + 1]

\* quantileDur on an already sorted slice.
quantileDur(sorted, pct) ==
    IF Len(sorted) = 0 THEN 0
    ELSE IF pct <= 0 THEN sorted[1]
    ELSE IF pct >= 100 THEN sorted[Len(sorted)]
    ELSE sorted[QIndex(Len(sorted) - 1, pct) + 1]

\* math.Log(float64(d)) scaled by 10^6, for the durations the model draws.
LnMicro(d) ==
    CASE d = 1 -> 0
      [] d = 2 -> 693147
      [] d = 3 -> 1098612
      [] d = 4 -> 1386294
      [] d = 5 -> 1609438
      [] d = 6 -> 1791759
      [] d = 7 -> 1945910
      [] OTHER -> 2079442

\* The bucket of one sample: the log clamped to [lmin, lmax], scaled to
\* bins-1 and truncated, then clamped to [0, bins-1].
BucketOf(d, lmin, lmax, bins) ==
    LET x0 == LnMicro(d)
        x1 == IF x0 < lmin THEN lmin ELSE x0
        x  == IF x1 > lmax THEN lmax ELSE x1
        idx == ((x - lmin) * (bins - 1)) \div (lmax - lmin)
    IN  IF idx < 0 THEN 0 ELSE IF idx >= bins THEN bins - 1 ELSE idx

\* The glyph level taken from the count itself, not scaled by the busiest
\* bucket.
GlyphLevelUnscaled(c, maxCnt) ==
    IF c < 0 THEN 0 ELSE IF c > FullBlock THEN FullBlock ELSE c

\* int(math.Round(c/maxCnt * 7)), clamped to the glyph table.
GlyphLevel(c, maxCnt) ==
    LET level == (2 * FullBlock * c + maxCnt) \div (2 * maxCnt)
    IN  IF level < 0 THEN 0 ELSE IF level > FullBlock THEN FullBlock ELSE level

\* sparkline: (min, max, glyphs); glyphs is the sequence of glyph levels
\* 0..7 and <<>> stands for the empty string.
sparkline(samples, bins) ==
    IF Len(samples) = 0 \/ bins <= 0 THEN [min |-> 0, max |-> 0, spark |-> <<>>]
    ELSE
      LET sorted == SortAsc(samples)
          s  == [i \in DOMAIN sorted |-> IF sorted[i] <= 0 THEN 1 ELSE sorted[i]]
          lo == quantileDur(s, 1)
          hi == quantileDur(s, 99)
      IN  IF hi <= lo
          THEN [min |-> s[1], max |-> s[Len(s)], spark |-> Repeat(FullBlock, bins)]
          ELSE
            LET lmin == LnMicro(lo)
                lmax == LnMicro(hi)
                counts == [b \in 0..(bins - 1) |->
                             Cardinality({i \in DOMAIN s :
                                            BucketOf(s[i], lmin, lmax, bins) = b})]
                maxCnt == CHOOSE m \in {counts[b] : b \in 0..(bins - 1)} :
                             \A b \in 0..(bins - 1) : counts[b] <= m
            IN  IF maxCnt = 0
                THEN [min |-> s[1], max |-> s[Len(s)], spark |-> <<>>]
                ELSE [min |-> s[1], max |-> s[Len(s)],
                      spark |-> [i \in 1..bins |-> GlyphLevel(counts[i - 1], maxCnt)]]

\* ------------------------------------------------------------- state

VARIABLES
    cfg,       \* Config: Engine, Concurrency, Warmup, Duration, TxBatch
    table,     \* keys of the rows of table kv
    prefetch,  \* the key snapshot the select/range/update/delete closures hold
    runPc,     \* position of Run
    phase,     \* index of the workload Run is at (1..5)
    pass,      \* "warmup" or "measured": which call of runPhase is active
    results,   \* the slice Run appends the measurements to
    runErr,    \* the error Run returns ("nil" for none)
    call,      \* arguments of the active WorkloadFunc call: kind, dur
    mpc,       \* position of the goroutine that runs the WorkloadFunc
    retval,    \* the Result value the last WorkloadFunc call returned
    res,       \* the Result objects, one per newResult call
    cpc,       \* position of each Result's collector goroutine
    ctx,       \* each call's context: "none", "live", "done"
    wk,        \* each call's worker goroutines: pc, batch slot, pending sample
    log,       \* per call: what was asked of the Result and of the backend
    iters,     \* worker loop iterations and failed set-up calls so far
    panicked,  \* a goroutine panicked (send on / close of a closed channel)
    report,    \* what sparkline returned to Pretty: min, max, glyphs
    limit,     \* the argument n of FetchKeySnapshot
    backend,   \* how the database answers: "ok", "fail", or "any" (either)
    now,       \* time.Now().Unix(), as the identifier generators read it
    cap,       \* how many worker loop iterations the behaviour may start
    bins,      \* the bucket count sparkline is called with
    parent     \* the context Run was given: "live" or "cancelled"

vars == <<cfg, table, prefetch, runPc, phase, pass, results, runErr, call, mpc,
          retval, res, cpc, ctx, wk, log, iters, panicked, report, limit, backend,
          now, cap, bins, parent>>

\* What no goroutine of a Run writes: the snapshot limit, the behaviour of
\* the database, and (outside Tick) the clock.
envVars == <<limit, backend, now, cap, bins, parent>>

runVars == <<envVars, cfg, prefetch, runPc, phase, pass, results, runErr, report>>

Workers == 0..(MaxConc - 1)

\* The databases drawn: one whose every call succeeds, one whose every call
\* fails, and one that may do either.
Backends == {"ok", "fail", "any"}

Lats == 0..MaxLat

Kinds == <<"insert", "select", "range", "update", "delete">>

\* cfg.Warmup values drawn: negative, no warmup, or a positive warmup
\* duration.
Warmups == {-1, 0, 1}

\* cfg.Duration values drawn (distinct from the warmup duration).
Durations == {2}

NoCall == [kind |-> "none", dur |-> 0]

NoResult == [Workload |-> "none", Concurrency |-> 0, Duration |-> 0, Ops |-> 0,
             Errors |-> 0, P50 |-> 0, P95 |-> 0, P99 |-> 0, samples |-> <<>>]

\* A worker goroutine: where it is, the batch slot it is at, the latency it is
\* about to send, whether it has issued a call with the context done, how
\* many identifiers its generator has produced, the keys its range query was
\* built from and its bounds, and what its last operation came to.
IdleWorker == [pc |-> "none", slot |-> 0, lat |-> 0, late |-> FALSE,
               seq |-> 0, q |-> <<>>, out |-> "none"]

\* What has been asked of one Result and of the backend during one call:
\* the samples handed to addLatency, the addErrorCnt calls, the backend calls
\* of the workers (and whether one of them issued a second call with the
\* context done), the backend calls of the run function itself, the close calls on
\* latCh, the samples buffered at the close, and whether finalize returned.
\* Of the insert workload it also holds the identifiers generated and their
\* number, the transactions whose statement was prepared, and the commits.
EmptyLog == [sent |-> <<>>, errs |-> 0, calls |-> 0, lateNew |-> FALSE,
             mainCalls |-> 0, closes |-> 0, bufAtClose |-> 0, finalized |-> FALSE,
             ids |-> {}, gens |-> 0, txs |-> 0, commits |-> 0]

\* The call the main goroutine is in: the latest Result allocated.
cur == Len(res)

\* cfg.TxBatch handed on as it is.
BatchUnclamped == cfg.TxBatch

\* max(1, cfg.TxBatch), the batch size Run gives insertWorkload.
Batch == Max(1, cfg.TxBatch)

\* -------------------------------------------------- Result (result.go)

\* newResult starting from the counters and samples of the previous Result.
NewResultCarry(name, conc, dur) ==
    [Workload |-> name, Concurrency |-> conc, Duration |-> dur,
     Ops |-> IF cur = 0 THEN 0 ELSE res[cur].Ops,
     Errors |-> IF cur = 0 THEN 0 ELSE res[cur].Errors,
     P50 |-> 0, P95 |-> 0, P99 |-> 0,
     samples |-> IF cur = 0 THEN <<>> ELSE res[cur].samples,
     latCh |-> <<>>, closed |-> FALSE, collectorDone |-> FALSE]

\* newResult: a zeroed Result with an empty, open intake channel.
newResult(name, conc, dur) ==
    [Workload |-> name, Concurrency |-> conc, Duration |-> dur,
     Ops |-> 0, Errors |-> 0, P50 |-> 0, P95 |-> 0, P99 |-> 0,
     samples |-> <<>>, latCh |-> <<>>, closed |-> FALSE, collectorDone |-> FALSE]

\* The value `return *r` copies out of a Result.
Measurement(r) ==
    [Workload |-> r.Workload, Concurrency |-> r.Concurrency, Duration |-> r.Duration,
     Ops |-> r.Ops, Errors |-> r.Errors, P50 |-> r.P50, P95 |-> r.P95, P99 |-> r.P99,
     samples |-> r.samples]

\* finalize, lines 87-89: the three percentiles of the retained samples.
WithPercentiles(r) ==
    [r EXCEPT !.P50 = quantile(r.samples, 50),
              !.P95 = quantile(r.samples, 95),
              !.P99 = quantile(r.samples, 99)]

\* addErrorCnt: one atomic increment of Errors.
addErrorCnt(c) ==
    /\ res' = [res EXCEPT ![c].Errors = @ + 1]
    /\ log' = [log EXCEPT ![c].errs = @ + 1]

\* The collector counting the sample in the step that dequeues it, before
\* its own increment.
CollectorRecvCounting(c) ==
    /\ cpc[c] = "run"
    /\ res[c].latCh # <<>>
    /\ res' = [res EXCEPT ![c].samples = Append(@, Head(res[c].latCh)),
                          ![c].latCh = Tail(@),
                          ![c].Ops = @ + 1]
    /\ cpc' = [cpc EXCEPT ![c] = "inc"]
    /\ UNCHANGED <<runVars, table, call, mpc, retval, ctx, wk, log, iters, panicked>>

\* The collector dequeues one sample and appends it to the histogram.
CollectorRecv(c) ==
    /\ cpc[c] = "run"
    /\ res[c].latCh # <<>>
    /\ res' = [res EXCEPT ![c].samples = Append(@, Head(res[c].latCh)),
                          ![c].latCh = Tail(@)]
    /\ cpc' = [cpc EXCEPT ![c] = "inc"]
    /\ UNCHANGED <<runVars, table, call, mpc, retval, ctx, wk, log, iters, panicked>>

\* ... and counts it.
CollectorInc(c) ==
    /\ cpc[c] = "inc"
    /\ res' = [res EXCEPT ![c].Ops = @ + 1]
    /\ cpc' = [cpc EXCEPT ![c] = "run"]
    /\ UNCHANGED <<runVars, table, call, mpc, retval, ctx, wk, log, iters, panicked>>

\* The range loop ends when the channel is closed and drained.
CollectorExit(c) ==
    /\ cpc[c] = "run"
    /\ res[c].latCh = <<>>
    /\ res[c].closed
    /\ res' = [res EXCEPT ![c].collectorDone = TRUE]
    /\ cpc' = [cpc EXCEPT ![c] = "done"]
    /\ UNCHANGED <<runVars, table, call, mpc, retval, ctx, wk, log, iters, panicked>>

\* addLatency: the send blocks while the channel is full and panics when
\* the channel is closed.
addLatency(c, w, next) ==
    /\ wk[c][w].pc = "send"
    /\ IF res[c].closed
       THEN /\ panicked' = TRUE
            /\ UNCHANGED <<res, log, wk>>
       ELSE /\ Len(res[c].latCh) < ChanCap
            /\ res' = [res EXCEPT ![c].latCh = Append(@, wk[c][w].lat)]
            /\ log' = [log EXCEPT ![c].sent = Append(@, wk[c][w].lat)]
            /\ wk' = [wk EXCEPT ![c][w] = next]
            /\ UNCHANGED panicked
    /\ UNCHANGED <<runVars, table, call, mpc, retval, cpc, ctx, iters>>

\* ---------------------------------------------- workers (workloads.go)

\* The model stops starting loop iterations, and failing set-up calls made
\* while the caller's context is live, at this count.
IterCap == cap

Kind(c) == res[c].Workload

\* Bookkeeping of a backend call (begin, prepare, query, exec) issued by
\* worker w of call c: it is counted; a call issued with the context done by
\* a worker that has already issued one with the context done is noted.
BackendCall(c, w) ==
    [log EXCEPT ![c].calls = @ + 1,
                ![c].lateNew = @ \/ (ctx[c] = "done" /\ wk[c][w].late)]

\* ... and the call fails and is counted by addErrorCnt.
FailedCall(c, w) ==
    [log EXCEPT ![c].calls = @ + 1,
                ![c].lateNew = @ \/ (ctx[c] = "done" /\ wk[c][w].late),
                ![c].errs = @ + 1]

\* The worker's record after a backend call: whether it has issued a call
\* with the context done.
Issued(c, rec) == [rec EXCEPT !.late = @ \/ (ctx[c] = "done")]

WorkerFrame == <<runVars, call, mpc, retval, cpc, ctx, panicked>>

\* What a database/sql call made with the call's context can answer (TRUE:
\* no error). Every call is given ctx (lines 43, 48, 63, 115, 169, 224, 272):
\* one issued with the deadline passed fails at once; the one in flight when
\* the deadline passes may be aborted or may complete.
Answers(c, w) ==
    IF ctx[c] = "done" /\ wk[c][w].late THEN {FALSE}
    ELSE IF backend = "fail" THEN {FALSE}
    ELSE IF backend = "ok" /\ ctx[c] = "live" THEN {TRUE}
    ELSE BOOLEAN

\* ... and the shared PrepareContext of the run function itself.
MainAnswers ==
    IF backend = "fail" THEN {FALSE}
    ELSE IF backend = "ok" /\ ctx[cur] = "live" THEN {TRUE}
    ELSE BOOLEAN

\* Whether NewRandflake / GenerateString succeed, and whether a row scans.
GenAnswers == IF backend = "any" THEN BOOLEAN ELSE {TRUE}

ScanAnswers == IF backend = "any" THEN BOOLEAN ELSE {TRUE}

\* The identifier a generator of node `worker` that has produced `seq`
\* identifiers produces next: the second it is asked in, the node and its
\* own running count (then enciphered and encoded, one to one).
GenerateString(worker, seq) == <<now, worker, seq + 1>>

\* Bookkeeping of one generated identifier.
Generated(lg, id) == [lg EXCEPT !.ids = @ \cup {id}, !.gens = @ + 1]

\* insert worker, lines 31-35: a generator that cannot be built ends the
\* worker after one error.
InsertNewGenerator(c, w) ==
    /\ Kind(c) = "insert"
    /\ wk[c][w].pc = "new"
    /\ \E ok \in GenAnswers :
         IF ok
         THEN /\ wk' = [wk EXCEPT ![c][w].pc = "check"]
              /\ UNCHANGED <<res, log, iters>>
         ELSE /\ iters < IterCap
              /\ iters' = iters + 1
              /\ wk' = [wk EXCEPT ![c][w].pc = "done", ![c][w].out = "genfail"]
              /\ addErrorCnt(c)
    /\ UNCHANGED <<WorkerFrame, table>>

\* Top of every worker loop: the non-blocking poll of ctx.Done().
LoopCheck(c, w) ==
    /\ wk[c][w].pc = "check"
    /\ IF ctx[c] = "done"
       THEN /\ wk' = [wk EXCEPT ![c][w] = [IdleWorker EXCEPT !.pc = "done"]]
            /\ UNCHANGED iters
       ELSE /\ iters < IterCap
            /\ iters' = iters + 1
            /\ wk' = [wk EXCEPT ![c][w].pc =
                        IF Kind(c) = "insert" THEN "begin" ELSE "op",
                                ![c][w].q = <<>>,
                                ![c][w].out = "none"]
    /\ UNCHANGED <<WorkerFrame, table, res, log>>

\* db.BeginTx whose failure is skipped without being counted.
InsertBeginUncounted(c, w) ==
    /\ wk[c][w].pc = "begin"
    /\ \E ok \in Answers(c, w) :
         /\ wk' = [wk EXCEPT ![c][w] =
                     Issued(c, [@ EXCEPT !.pc = IF ok THEN "prepare" ELSE "check"])]
         /\ log' = BackendCall(c, w)
    /\ UNCHANGED <<WorkerFrame, table, iters, res>>

\* db.BeginTx, lines 43-47.
InsertBegin(c, w) ==
    /\ wk[c][w].pc = "begin"
    /\ \E ok \in Answers(c, w) :
         IF ok
         THEN /\ wk' = [wk EXCEPT ![c][w] = Issued(c, [@ EXCEPT !.pc = "prepare"])]
              /\ res' = res
              /\ log' = BackendCall(c, w)
         ELSE /\ wk' = [wk EXCEPT ![c][w] = Issued(c, [@ EXCEPT !.pc = "check"])]
              /\ res' = [res EXCEPT ![c].Errors = @ + 1]
              /\ log' = FailedCall(c, w)
    /\ UNCHANGED <<WorkerFrame, table, iters>>

\* tx.PrepareContext, lines 48-53: a failure is logged and rolled back,
\* the Result is not touched.
InsertPrepare(c, w) ==
    /\ wk[c][w].pc = "prepare"
    /\ \E ok \in Answers(c, w) :
         /\ wk' = [wk EXCEPT ![c][w] =
                     IF ok THEN Issued(c, [@ EXCEPT !.pc = "slot", !.slot = 1])
                           ELSE Issued(c, [@ EXCEPT !.pc = "check"])]
         /\ log' = [BackendCall(c, w) EXCEPT ![c].txs = IF ok THEN @ + 1 ELSE @]
    /\ UNCHANGED <<WorkerFrame, table, iters, res>>

\* One pass of `for range batch`, lines 55-67, up to the send.
InsertSlot(c, w) ==
    /\ wk[c][w].pc = "slot"
    /\ wk[c][w].slot <= Batch
    /\ \E gen \in GenAnswers, ok \in Answers(c, w), d \in Lats :
         LET k == GenerateString(w, wk[c][w].seq)
         IN  CASE ~gen ->
                    /\ wk' = [wk EXCEPT ![c][w].slot = @ + 1,
                                        ![c][w].out = "genfail"]
                    /\ addErrorCnt(c)
               [] gen /\ ~ok ->
                    /\ wk' = [wk EXCEPT ![c][w] =
                                Issued(c, [@ EXCEPT !.slot = @ + 1, !.seq = @ + 1,
                                                    !.out = "fail"])]
                    /\ res' = [res EXCEPT ![c].Errors = @ + 1]
                    /\ log' = [FailedCall(c, w) EXCEPT ![c] = Generated(@, k)]
               [] gen /\ ok ->
                    /\ wk' = [wk EXCEPT ![c][w] =
                                Issued(c, [@ EXCEPT !.pc = "send", !.lat = d,
                                                    !.seq = @ + 1, !.out = "ok"])]
                    /\ res' = res
                    /\ log' = [BackendCall(c, w) EXCEPT ![c] = Generated(@, k)]
    /\ UNCHANGED <<WorkerFrame, table, iters>>

\* res.addLatency at line 67, then the next slot.
InsertSend(c, w) ==
    /\ Kind(c) = "insert"
    /\ addLatency(c, w, [wk[c][w] EXCEPT !.pc = "slot", !.slot = @ + 1, !.lat = 0,
                                         !.out = "none"])
    /\ UNCHANGED table

\* tx.Commit counting its failure with addErrorCnt.
InsertCommitCounted(c, w) ==
    /\ wk[c][w].pc = "slot"
    /\ wk[c][w].slot > Batch
    /\ \E ok \in Answers(c, w) :
         /\ wk' = [wk EXCEPT ![c][w] =
                     [@ EXCEPT !.pc = "check", !.slot = 0,
                               !.out = IF ok THEN "none" ELSE "commitfail"]]
         /\ res' = IF ok THEN res ELSE [res EXCEPT ![c].Errors = @ + 1]
         /\ log' = [log EXCEPT ![c].commits = @ + 1,
                               ![c].errs = IF ok THEN @ ELSE @ + 1]
    /\ UNCHANGED <<WorkerFrame, table, iters>>

\* stmt.Close and tx.Commit, lines 69-70: the commit of a transaction begun
\* with the call's context can fail; its error is dropped.
InsertCommit(c, w) ==
    /\ wk[c][w].pc = "slot"
    /\ wk[c][w].slot > Batch
    /\ \E ok \in Answers(c, w) :
         wk' = [wk EXCEPT ![c][w] =
                  [@ EXCEPT !.pc = "check", !.slot = 0,
                            !.out = IF ok THEN "none" ELSE "commitfail"]]
    /\ log' = [log EXCEPT ![c].commits = @ + 1]
    /\ UNCHANGED <<WorkerFrame, table, iters, res>>

\* OpDone going on to addLatency after an error return as well.
OpDoneErrorSampled(c, w, ok, out, q, d) ==
    /\ wk' = [wk EXCEPT ![c][w] =
                Issued(c, [@ EXCEPT !.pc = "send", !.lat = d, !.out = out, !.q = q])]
    /\ res' = IF ok THEN res ELSE [res EXCEPT ![c].Errors = @ + 1]
    /\ log' = IF ok THEN BackendCall(c, w) ELSE FailedCall(c, w)

\* The effect of one operation of a select/range/update/delete worker that
\* came to `out` with the query arguments q: an error return is counted, any
\* other goes on to addLatency.
OpDone(c, w, ok, out, q, d) ==
    IF ok
    THEN /\ wk' = [wk EXCEPT ![c][w] =
                     Issued(c, [@ EXCEPT !.pc = "send", !.lat = d,
                                         !.out = out, !.q = q])]
         /\ res' = res
         /\ log' = BackendCall(c, w)
    ELSE /\ wk' = [wk EXCEPT ![c][w] =
                     Issued(c, [@ EXCEPT !.pc = "check", !.out = out, !.q = q])]
         /\ res' = [res EXCEPT ![c].Errors = @ + 1]
         /\ log' = FailedCall(c, w)

\* select, lines 112-118: QueryRowContext(key).Scan fails when the call
\* fails, when the row is gone (ErrNoRows) or when the scan fails.
SelectOp(c, w) ==
    /\ Kind(c) = "select"
    /\ wk[c][w].pc = "op"
    /\ \E i \in DOMAIN prefetch, ok \in Answers(c, w), scan \in ScanAnswers, d \in Lats :
         LET out == IF ~ok THEN "fail"
                    ELSE IF prefetch[i] \notin table THEN "norow"
                    ELSE IF ~scan THEN "scanfail" ELSE "ok"
         IN  OpDone(c, w, out = "ok", out, <<>>, d)
    /\ UNCHANGED <<WorkerFrame, table, iters>>

\* The bounds as the query would get them without the swap.
RangeBoundsAsDrawn(a, b) == <<a, b>>

\* range, lines 163-166: the two drawn keys in ascending order.
RangeBounds(a, b) == IF a > b THEN <<b, a>> ELSE <<a, b>>

\* range, lines 161-180: two keys are drawn and ordered; a failed
\* QueryContext is counted, the error of rows.Scan is dropped.
RangeOp(c, w) ==
    /\ Kind(c) = "range"
    /\ wk[c][w].pc = "op"
    /\ \E i \in DOMAIN prefetch, j \in DOMAIN prefetch,
          ok \in Answers(c, w), scan \in ScanAnswers, d \in Lats :
         LET a   == prefetch[i]
             b   == prefetch[j]
             bnd == RangeBounds(a, b)
             out == IF ~ok THEN "fail"
                    ELSE IF ~scan /\ (\E k \in table : bnd[1] <= k /\ k <= bnd[2])
                         THEN "scanfail" ELSE "ok"
         IN  OpDone(c, w, ok, out, <<a, b>> \o bnd, d)
    /\ UNCHANGED <<WorkerFrame, table, iters>>

\* update, lines 222-227: an UPDATE that matches no row is no error.
UpdateOp(c, w) ==
    /\ Kind(c) = "update"
    /\ wk[c][w].pc = "op"
    /\ \E i \in DOMAIN prefetch, ok \in Answers(c, w), d \in Lats :
         LET out == IF ~ok THEN "fail"
                    ELSE IF prefetch[i] \notin table THEN "norow" ELSE "ok"
         IN  OpDone(c, w, ok, out, <<>>, d)
    /\ UNCHANGED <<WorkerFrame, table, iters>>

\* delete, lines 270-275: a successful DELETE removes the row if it is
\* there; one that matches no row is no error.
DeleteOp(c, w) ==
    /\ Kind(c) = "delete"
    /\ wk[c][w].pc = "op"
    /\ \E i \in DOMAIN prefetch, ok \in Answers(c, w), d \in Lats :
         LET out == IF ~ok THEN "fail"
                    ELSE IF prefetch[i] \notin table THEN "norow" ELSE "ok"
         IN  /\ OpDone(c, w, ok, out, <<>>, d)
             /\ table' = IF ok THEN table \ {prefetch[i]} ELSE table
    /\ UNCHANGED <<WorkerFrame, iters>>

\* res.addLatency of the four single-operation workloads.
OpSend(c, w) ==
    /\ Kind(c) # "insert"
    /\ addLatency(c, w, [wk[c][w] EXCEPT !.pc = "check", !.lat = 0,
                                         !.out = "none", !.q = <<>>])
    /\ UNCHANGED table

\* The timer of context.WithTimeout fires.
DeadlineFire(c) ==
    /\ ctx[c] = "live"
    /\ ctx' = [ctx EXCEPT ![c] = "done"]
    /\ UNCHANGED <<runVars, table, call, mpc, retval, res, cpc, wk, log, iters, panicked>>

\* ------------------------------------ the WorkloadFunc body (workloads.go)

\* A panic in any goroutine ends the program.
Alive == ~panicked

MainFrame == <<runVars, table, call, retval, iters>>

\* The guard with range tested like the others, for an empty snapshot only.
KeysTooFewEmptyOnly(kind, keys) ==
    kind # "insert" /\ Len(keys) = 0

\* The guard of lines 86, 135, 196, 244: select, update and delete need one
\* key, range needs two; insert has no such guard.
KeysTooFew(kind, keys) ==
    CASE kind = "insert" -> FALSE
      [] kind = "range"  -> Len(keys) < 2
      [] OTHER           -> Len(keys) = 0

\* wg.Wait returning as soon as one worker is done.
WgWaitAny(c) == \E w \in Workers : wk[c][w].pc \in {"none", "done"}

\* wg.Wait: every spawned worker has called wg.Done.
WgWait(c) == \A w \in Workers : wk[c][w].pc \in {"none", "done"}

\* finalize not waiting for the collector.
CollectorDoneSkipped(c) == TRUE

\* <-r.collectorDone
CollectorDoneWait(c) == res[c].collectorDone

Spawned(c) == Cardinality({w \in Workers : wk[c][w].pc # "none"})

\* The run function arming its deadline on a fresh background context
\* instead of the one it was given.
CallEnterBackgroundContext ==
    /\ Alive
    /\ mpc = "entry"
    /\ res' = Append(res, newResult(call.kind, cfg.Concurrency, call.dur))
    /\ cpc' = Append(cpc, "run")
    /\ wk' = Append(wk, [w \in Workers |-> IdleWorker])
    /\ log' = Append(log, EmptyLog)
    /\ IF KeysTooFew(call.kind, prefetch)
       THEN /\ mpc' = "close"
            /\ ctx' = Append(ctx, "none")
       ELSE /\ mpc' = IF call.kind = "insert" THEN "spawn" ELSE "prepare"
            /\ ctx' = Append(ctx, "live")
    /\ UNCHANGED <<MainFrame, panicked>>

\* Entry of a run function: newResult allocates a fresh Result and starts
\* its collector; a snapshot that is too small returns through finalize at
\* once, otherwise context.WithTimeout arms the deadline on a child of the
\* context Run was given, done from the start if that one is cancelled.
CallEnter ==
    /\ Alive
    /\ mpc = "entry"
    /\ res' = Append(res, newResult(call.kind, cfg.Concurrency, call.dur))
    /\ cpc' = Append(cpc, "run")
    /\ wk' = Append(wk, [w \in Workers |-> IdleWorker])
    /\ log' = Append(log, EmptyLog)
    /\ IF KeysTooFew(call.kind, prefetch)
       THEN /\ mpc' = "close"
            /\ ctx' = Append(ctx, "none")
       ELSE /\ mpc' = IF call.kind = "insert" THEN "spawn" ELSE "prepare"
            /\ ctx' = Append(ctx, IF parent = "cancelled" THEN "done" ELSE "live")
    /\ UNCHANGED <<MainFrame, panicked>>

\* A failed PrepareContext returning the Result as it is, without finalize.
CallPrepareReturnsUnfinalized ==
    /\ Alive
    /\ mpc = "prepare"
    /\ \E ok \in MainAnswers :
         IF ok
         THEN /\ mpc' = "spawn"
              /\ res' = res
              /\ log' = [log EXCEPT ![cur].mainCalls = @ + 1]
              /\ iters' = iters
              /\ UNCHANGED <<retval, ctx>>
         ELSE /\ iters < IterCap \/ parent = "cancelled"
              /\ iters' = IF iters < IterCap THEN iters + 1 ELSE iters
              /\ mpc' = "ret"
              /\ res' = [res EXCEPT ![cur].Errors = @ + 1]
              /\ log' = [log EXCEPT ![cur].mainCalls = @ + 1, ![cur].errs = @ + 1]
              /\ retval' = Measurement([res[cur] EXCEPT !.Errors = @ + 1])
              /\ ctx' = [ctx EXCEPT ![cur] = "done"]
    /\ UNCHANGED <<runVars, table, call, cpc, wk, panicked>>

\* db.PrepareContext of the shared statement (select/range/update/delete).
CallPrepare ==
    /\ Alive
    /\ mpc = "prepare"
    /\ \E ok \in MainAnswers :
         IF ok
         THEN /\ mpc' = "spawn"
              /\ res' = res
              /\ log' = [log EXCEPT ![cur].mainCalls = @ + 1]
              /\ iters' = iters
         ELSE /\ iters < IterCap \/ parent = "cancelled"
              /\ iters' = IF iters < IterCap THEN iters + 1 ELSE iters
              /\ mpc' = "close"
              /\ res' = [res EXCEPT ![cur].Errors = @ + 1]
              /\ log' = [log EXCEPT ![cur].mainCalls = @ + 1, ![cur].errs = @ + 1]
    /\ UNCHANGED <<runVars, table, call, retval, cpc, ctx, wk, panicked>>

\* One `go func(worker int)` of the spawn loop.
CallSpawn ==
    /\ Alive
    /\ mpc = "spawn"
    /\ Spawned(cur) < cfg.Concurrency
    /\ wk' = [wk EXCEPT ![cur][Spawned(cur)].pc =
                IF call.kind = "insert" THEN "new" ELSE "check"]
    /\ UNCHANGED <<MainFrame, mpc, res, cpc, ctx, log, panicked>>

\* wg.Wait returns once the loop has spawned `conc` workers and all of
\* them are done.
CallWait ==
    /\ Alive
    /\ mpc = "spawn"
    /\ Spawned(cur) >= cfg.Concurrency
    /\ WgWait(cur)
    /\ mpc' = "close"
    /\ UNCHANGED <<MainFrame, res, cpc, ctx, wk, log, panicked>>

\* finalize going on to wait for the collector without closing the channel.
FinalizeCloseForgotten ==
    /\ Alive
    /\ mpc = "close"
    /\ mpc' = "collwait"
    /\ log' = [log EXCEPT ![cur].closes = @ + 1,
                          ![cur].bufAtClose = Len(res[cur].latCh)]
    /\ UNCHANGED <<MainFrame, res, cpc, ctx, wk, panicked>>

\* finalize, line 84: close(r.latCh); closing a closed channel panics.
FinalizeClose ==
    /\ Alive
    /\ mpc = "close"
    /\ IF res[cur].closed
       THEN /\ panicked' = TRUE
            /\ UNCHANGED <<res, mpc>>
       ELSE /\ res' = [res EXCEPT ![cur].closed = TRUE]
            /\ mpc' = "collwait"
            /\ UNCHANGED panicked
    /\ log' = [log EXCEPT ![cur].closes = @ + 1,
                          ![cur].bufAtClose = Len(res[cur].latCh)]
    /\ UNCHANGED <<MainFrame, cpc, ctx, wk>>

\* finalize, lines 85-90: wait for the collector, set the percentiles and
\* return a copy; the deferred cancel runs as the run function returns.
FinalizeReturn ==
    /\ Alive
    /\ mpc = "collwait"
    /\ CollectorDoneWait(cur)
    /\ res' = [res EXCEPT ![cur] = WithPercentiles(@)]
    /\ retval' = Measurement(WithPercentiles(res[cur]))
    /\ log' = [log EXCEPT ![cur].finalized = TRUE]
    /\ ctx' = [ctx EXCEPT ![cur] = IF @ = "live" THEN "done" ELSE @]
    /\ mpc' = "ret"
    /\ UNCHANGED <<runVars, table, call, iters, cpc, wk, panicked>>

\* --------------------------------------------------- Run (runner.go)

Engines == {"chai", "sqlite3", "PGX", "mysql"}

\* strings.ToLower on the engine names drawn.
ToLower(e) == IF e = "PGX" THEN "pgx" ELSE e

\* Open (database.go): the engine names its switch accepts.
OpenAccepts(e) == ToLower(e) \in {"chai", "sqlite", "sqlite3", "pgx"}

\* initSchema accepting every name Open accepts.
SchemaAcceptsLowered(e) == ToLower(e) \in {"chai", "sqlite", "sqlite3", "pgx"}

\* initSchema: the engine names its switch accepts.
SchemaAccepts(e) == e \in {"pgx", "sqlite", "chai"}

RECURSIVE DescKeys(_)
DescKeys(S) ==
    IF S = {} THEN <<>>
    ELSE LET m == CHOOSE x \in S : \A y \in S : y <= x
         IN  <<m>> \o DescKeys(S \ {m})

\* The query without its LIMIT clause.
SnapshotRowsUnlimited(tbl, n) == DescKeys(tbl)

\* The rows of SELECT k FROM kv ORDER BY k DESC LIMIT n.
SnapshotRows(tbl, n) == SubSeq(DescKeys(tbl), 1, Min(n, Cardinality(tbl)))

\* What a call made with Run's own context can answer (TRUE: no error).
DbAnswers ==
    CASE backend = "ok"   -> {TRUE}
      [] backend = "fail" -> {FALSE}
      [] OTHER            -> BOOLEAN

\* FetchKeySnapshot(ctx, db, engine, n) against table tbl: the (keys, err)
\* pairs it can return. A failed query, scan or rows.Err gives no keys; so
\* does a read that yields no row.
FetchKeySnapshot(tbl, n) ==
    {IF ~ok THEN [keys |-> <<>>, err |-> "query failed"]
     ELSE IF Len(SnapshotRows(tbl, n)) = 0
          THEN [keys |-> <<>>, err |-> "snapshot is empty"]
          ELSE [keys |-> SnapshotRows(tbl, n), err |-> "nil"] : ok \in DbAnswers}

RunFrame == <<table, retval, res, cpc, ctx, wk, log, iters, panicked>>

Fail(err) ==
    /\ runPc' = "failed"
    /\ runErr' = err
    /\ UNCHANGED <<envVars, cfg, prefetch, phase, pass, results, call, mpc, report>>

\* Run, lines 30-34.
RunOpen ==
    /\ runPc = "open"
    /\ IF OpenAccepts(cfg.Engine)
       THEN \E ok \in BOOLEAN :
              IF ok
              THEN /\ runPc' = "schema"
                   /\ UNCHANGED <<envVars, cfg, prefetch, phase, pass, results, runErr, call, mpc, report>>
              ELSE Fail("open failed")
       ELSE Fail("unknown engine")
    /\ UNCHANGED RunFrame

\* Run, lines 36-38, with initSchema.
RunInitSchema ==
    /\ runPc = "schema"
    /\ IF SchemaAccepts(cfg.Engine)
       THEN \E ok \in DbAnswers :
              IF ok
              THEN /\ runPc' = "snapshot"
                   /\ UNCHANGED <<envVars, cfg, prefetch, phase, pass, results, runErr, call, mpc, report>>
              ELSE Fail("schema failed")
       ELSE Fail("unsupported engine")
    /\ UNCHANGED RunFrame

\* Run, lines 41-48, with FetchKeySnapshot.
RunSnapshot ==
    /\ runPc = "snapshot"
    /\ \E r \in FetchKeySnapshot(table, SnapLimit) :
         IF r.err # "nil" THEN Fail(r.err)
         ELSE /\ prefetch' = r.keys
              /\ runPc' = "phase"
              /\ phase' = 1
              /\ UNCHANGED <<envVars, cfg, pass, results, runErr, call, mpc, report>>
    /\ UNCHANGED RunFrame

\* The update phase given the delete run function.
PhaseWorkloadSwapped(p) ==
    IF p = 4 THEN Kinds[5] ELSE Kinds[p]

\* Run, lines 54-70: the run function of each phase, in program order.
PhaseWorkload(p) == Kinds[p]

\* runPhase making the warmup call whatever the warmup duration.
FirstPassAlwaysWarmup(warmup) == "warmup"

\* runPhase, lines 23-26: which call comes first.
FirstPass(warmup) == IF warmup > 0 THEN "warmup" ELSE "measured"

PassDur(p) == IF p = "warmup" THEN cfg.Warmup ELSE cfg.Duration

\* Run calls runPhase for the workload it is at.
RunPhaseStart ==
    /\ runPc = "phase"
    /\ mpc = "idle"
    /\ pass' = FirstPass(cfg.Warmup)
    /\ call' = [kind |-> PhaseWorkload(phase), dur |-> PassDur(FirstPass(cfg.Warmup))]
    /\ mpc' = "entry"
    /\ UNCHANGED <<envVars, cfg, prefetch, runPc, phase, results, runErr, report, RunFrame>>

\* The warmup return reading the key snapshot again for the measured call.
RunPhaseWarmupReturnRefetch ==
    /\ runPc = "phase"
    /\ mpc = "ret"
    /\ pass = "warmup"
    /\ pass' = "measured"
    /\ call' = [kind |-> PhaseWorkload(phase), dur |-> cfg.Duration]
    /\ mpc' = "entry"
    /\ prefetch' = SnapshotRows(table, SnapLimit)
    /\ UNCHANGED <<envVars, cfg, runPc, phase, results, runErr, report, RunFrame>>

\* The warmup call has returned: its Result is dropped and the measured
\* call is made.
RunPhaseWarmupReturn ==
    /\ runPc = "phase"
    /\ mpc = "ret"
    /\ pass = "warmup"
    /\ pass' = "measured"
    /\ call' = [kind |-> PhaseWorkload(phase), dur |-> cfg.Duration]
    /\ mpc' = "entry"
    /\ UNCHANGED <<envVars, cfg, prefetch, runPc, phase, results, runErr, report, RunFrame>>

\* The measured call has returned: Run appends its Result and goes on to
\* the next workload, or returns.
RunPhaseReturn ==
    /\ runPc = "phase"
    /\ mpc = "ret"
    /\ pass = "measured"
    /\ results' = Append(results, retval)
    /\ mpc' = "idle"
    /\ call' = NoCall
    /\ IF phase < Len(Kinds)
       THEN /\ phase' = phase + 1
            /\ runPc' = runPc
       ELSE /\ runPc' = "done"
            /\ phase' = phase
    /\ UNCHANGED <<envVars, cfg, prefetch, pass, runErr, report, RunFrame>>

\* ------------------------------------------------------ specifications

Configs ==
    [Engine : Engines, Concurrency : 0..MaxConc, Warmup : Warmups,
     Duration : Durations, TxBatch : {0, MaxBatch}]

\* The tables drawn: rows with the keys 1..n.
Tables == {1..n : n \in 0..MaxKeys}

NoReport == [min |-> 0, max |-> 0, spark |-> <<"none">>]

\* Nothing allocated yet: no Result, no goroutine.
InitHeap ==
    /\ retval = NoResult
    /\ res = <<>>
    /\ cpc = <<>>
    /\ ctx = <<>>
    /\ wk = <<>>
    /\ log = <<>>
    /\ iters = 0
    /\ panicked = FALSE
    /\ report = NoReport

\* Run is called on a configuration and a table that may hold rows.
Init ==
    /\ cfg \in Configs
    /\ table \in Tables
    /\ prefetch = <<>>
    /\ runPc = "open"
    /\ phase = 0
    /\ pass = "none"
    /\ results = <<>>
    /\ runErr = "nil"
    /\ call = NoCall
    /\ mpc = "idle"
    /\ InitHeap
    /\ limit = SnapLimit
    /\ backend \in Backends
    /\ now = 0
    /\ cap = RunIters
    /\ bins = PrettyBins
    /\ parent = "live"

\* The calls whose goroutines can still take steps.
Calls == IF panicked THEN {} ELSE DOMAIN res

Next ==
    \/ RunOpen
    \/ RunInitSchema
    \/ RunSnapshot
    \/ RunPhaseStart
    \/ RunPhaseWarmupReturn
    \/ RunPhaseReturn
    \/ CallEnter
    \/ CallPrepare
    \/ CallSpawn
    \/ CallWait
    \/ FinalizeClose
    \/ FinalizeReturn
    \/ \E c \in Calls : CollectorRecv(c)
    \/ \E c \in Calls : CollectorInc(c)
    \/ \E c \in Calls : CollectorExit(c)
    \/ \E c \in Calls : DeadlineFire(c)
    \/ \E c \in Calls, w \in Workers : InsertNewGenerator(c, w)
    \/ \E c \in Calls, w \in Workers : LoopCheck(c, w)
    \/ \E c \in Calls, w \in Workers : InsertBegin(c, w)
    \/ \E c \in Calls, w \in Workers : InsertPrepare(c, w)
    \/ \E c \in Calls, w \in Workers : InsertSlot(c, w)
    \/ \E c \in Calls, w \in Workers : InsertSend(c, w)
    \/ \E c \in Calls, w \in Workers : InsertCommit(c, w)
    \/ \E c \in Calls, w \in Workers : SelectOp(c, w)
    \/ \E c \in Calls, w \in Workers : RangeOp(c, w)
    \/ \E c \in Calls, w \in Workers : UpdateOp(c, w)
    \/ \E c \in Calls, w \in Workers : DeleteOp(c, w)
    \/ \E c \in Calls, w \in Workers : OpSend(c, w)

Spec == Init /\ [][Next]_vars

\* ------------------------------------------- one run function, called alone

\* The key snapshots a run function is built with: none, one, or more keys
\* in descending order.
Snapshots == {SnapshotRows(T, SnapLimit) : T \in Tables}

\* A WorkloadFunc built with max(1, batch) and a snapshot read earlier from
\* the table, called once.
CallInit ==
    /\ cfg \in {c \in Configs : c.Engine = "chai" /\ c.Warmup = 0}
    /\ prefetch \in Snapshots
    /\ table \in {T \in Tables : Range(prefetch) \subseteq T}
    /\ runPc = "call"
    /\ phase = 0
    /\ pass = "measured"
    /\ results = <<>>
    /\ runErr = "nil"
    /\ call \in {[kind |-> Kinds[k], dur |-> cfg.Duration] : k \in DOMAIN Kinds}
    /\ mpc = "entry"
    /\ InitHeap
    /\ limit = SnapLimit
    /\ backend \in Backends
    /\ now = 0
    /\ cap = MaxIters
    /\ bins = PrettyBins
    /\ parent = "live"

\* The caller receives the Result value.
CallReturn ==
    /\ runPc = "call"
    /\ mpc = "ret"
    /\ results' = <<retval>>
    /\ runPc' = "returned"
    /\ mpc' = "idle"
    /\ UNCHANGED <<envVars, cfg, prefetch, phase, pass, runErr, report, call, RunFrame>>

CallNext ==
    \/ CallEnter
    \/ CallPrepare
    \/ CallSpawn
    \/ CallWait
    \/ FinalizeClose
    \/ FinalizeReturn
    \/ CallReturn
    \/ \E c \in Calls : CollectorRecv(c)
    \/ \E c \in Calls : CollectorInc(c)
    \/ \E c \in Calls : CollectorExit(c)
    \/ \E c \in Calls : DeadlineFire(c)
    \/ \E c \in Calls, w \in Workers : InsertNewGenerator(c, w)
    \/ \E c \in Calls, w \in Workers : LoopCheck(c, w)
    \/ \E c \in Calls, w \in Workers : InsertBegin(c, w)
    \/ \E c \in Calls, w \in Workers : InsertPrepare(c, w)
    \/ \E c \in Calls, w \in Workers : InsertSlot(c, w)
    \/ \E c \in Calls, w \in Workers : InsertSend(c, w)
    \/ \E c \in Calls, w \in Workers : InsertCommit(c, w)
    \/ \E c \in Calls, w \in Workers : SelectOp(c, w)
    \/ \E c \in Calls, w \in Workers : RangeOp(c, w)
    \/ \E c \in Calls, w \in Workers : UpdateOp(c, w)
    \/ \E c \in Calls, w \in Workers : DeleteOp(c, w)
    \/ \E c \in Calls, w \in Workers : OpSend(c, w)

WorkloadSpec == CallInit /\ [][CallNext]_vars

\* The goroutines of one call, as the scheduler sees them: the run function
\* itself, the collector, each worker, and the runtime timer of the deadline.
MainSteps ==
    \/ CallEnter
    \/ CallPrepare
    \/ CallSpawn
    \/ CallWait
    \/ FinalizeClose
    \/ FinalizeReturn
    \/ CallReturn

CollectorSteps(c) ==
    /\ c \in Calls
    /\ \/ CollectorRecv(c)
       \/ CollectorInc(c)
       \/ CollectorExit(c)

WorkerSteps(c, w) ==
    /\ c \in Calls
    /\ \/ InsertNewGenerator(c, w)
       \/ LoopCheck(c, w)
       \/ InsertBegin(c, w)
       \/ InsertPrepare(c, w)
       \/ InsertSlot(c, w)
       \/ InsertSend(c, w)
       \/ InsertCommit(c, w)
       \/ SelectOp(c, w)
       \/ RangeOp(c, w)
       \/ UpdateOp(c, w)
       \/ DeleteOp(c, w)
       \/ OpSend(c, w)

TimerSteps(c) == c \in Calls /\ DeadlineFire(c)

\* The caller of Run cancels the context it passed: every context derived
\* from it that is still live is done at once.
ParentCancel ==
    /\ parent = "live"
    /\ runPc = "phase"
    /\ parent' = "cancelled"
    /\ ctx' = [c \in DOMAIN ctx |-> IF ctx[c] = "live" THEN "done" ELSE ctx[c]]
    /\ UNCHANGED <<limit, backend, now, cap, bins, cfg, table, prefetch, runPc, phase,
                   pass, results, runErr, call, mpc, retval, res, cpc, wk, log, iters,
                   panicked, report>>

\* Run has the snapshot and is about to call runPhase for the insert
\* workload, without warmup; the caller may cancel at any moment from here
\* on.
CancelInit ==
    /\ cfg \in {c \in Configs : c.Engine = "chai" /\ c.TxBatch = 0 /\ c.Concurrency > 0
                                /\ c.Warmup = 0}
    /\ table = 1..MaxKeys
    /\ prefetch = SnapshotRows(table, SnapLimit)
    /\ runPc = "phase"
    /\ phase = 1
    /\ pass = "none"
    /\ results = <<>>
    /\ runErr = "nil"
    /\ call = NoCall
    /\ mpc = "idle"
    /\ InitHeap
    /\ limit = SnapLimit
    /\ backend = "any"
    /\ now = 0
    /\ cap = RunIters
    /\ bins = PrettyBins
    /\ parent = "live"

CancelNext ==
    \/ ParentCancel
    \/ RunPhaseStart
    \/ RunPhaseReturn
    \/ CallEnter
    \/ CallPrepare
    \/ CallSpawn
    \/ CallWait
    \/ FinalizeClose
    \/ FinalizeReturn
    \/ \E c \in Calls : CollectorRecv(c)
    \/ \E c \in Calls : CollectorInc(c)
    \/ \E c \in Calls : CollectorExit(c)
    \/ \E c \in Calls : DeadlineFire(c)
    \/ \E c \in Calls, w \in Workers : InsertNewGenerator(c, w)
    \/ \E c \in Calls, w \in Workers : LoopCheck(c, w)
    \/ \E c \in Calls, w \in Workers : InsertBegin(c, w)
    \/ \E c \in Calls, w \in Workers : InsertPrepare(c, w)
    \/ \E c \in Calls, w \in Workers : InsertSlot(c, w)
    \/ \E c \in Calls, w \in Workers : InsertSend(c, w)
    \/ \E c \in Calls, w \in Workers : InsertCommit(c, w)
    \/ \E c \in Calls, w \in Workers : SelectOp(c, w)
    \/ \E c \in Calls, w \in Workers : RangeOp(c, w)
    \/ \E c \in Calls, w \in Workers : UpdateOp(c, w)
    \/ \E c \in Calls, w \in Workers : DeleteOp(c, w)
    \/ \E c \in Calls, w \in Workers : OpSend(c, w)

\* The goroutine of Run through its five runPhase calls.
RunSteps ==
    \/ RunPhaseStart
    \/ RunPhaseReturn
    \/ CallEnter
    \/ CallPrepare
    \/ CallSpawn
    \/ CallWait
    \/ FinalizeClose
    \/ FinalizeReturn

\* As Scheduling, for every call Run makes; the caller's cancellation is
\* under no obligation to happen.
RunScheduling ==
    /\ WF_vars(RunSteps)
    /\ WF_vars(\E c \in Calls : CollectorSteps(c))
    /\ WF_vars(\E c \in Calls : TimerSteps(c))
    /\ \A w \in Workers : WF_vars(\E c \in Calls : WorkerSteps(c, w))

CancelSpec == CancelInit /\ [][CancelNext]_vars /\ RunScheduling

\* Every backend call returns and the Go scheduler runs every runnable
\* goroutine: a goroutine that can take a step eventually takes one, and the
\* timer armed by context.WithTimeout eventually fires.
Scheduling ==
    /\ WF_vars(MainSteps)
    /\ WF_vars(CollectorSteps(1))
    /\ WF_vars(TimerSteps(1))
    /\ \A w \in Workers : WF_vars(WorkerSteps(1, w))

\* One call of any workload with the full worker count, over a table that
\* holds the snapshot's keys, against a backend whose calls may fail.
FairInit ==
    /\ CallInit
    /\ backend = "any"
    /\ cfg.Concurrency = MaxConc
    /\ cfg.TxBatch = 0
    /\ Len(prefetch) = MaxKeys
    /\ table = Range(prefetch)

FairWorkloadSpec == FairInit /\ [][CallNext]_vars /\ Scheduling

\* ------------------------------------ finalize and sparkline on sample sets

\* The sample sets drawn: n samples, the first `spikes` of them outliers,
\* the rest cycling through 0..k-1 in an unsorted order.
SampleSets ==
    {[i \in 1..n |-> IF i <= spikes THEN 7 ELSE (i * m + o) % k] :
        n \in 0..MaxSamples, spikes \in 0..2, m \in 1..3, o \in 0..1, k \in {1, 2, 5}}

\* The bucket counts sparkline is called with; Pretty passes PrettyBins.
BinsDrawn == {0, 3, PrettyBins}

\* A Result whose channel is closed and drained, holding a drawn sample set:
\* finalize is about to compute.
StatsInit ==
    /\ cfg = [Engine |-> "chai", Concurrency |-> 0, Warmup |-> 0, Duration |-> 2,
              TxBatch |-> 1]
    /\ table = {}
    /\ prefetch = <<>>
    /\ runPc = "stats"
    /\ phase = 0
    /\ pass = "measured"
    /\ results = <<>>
    /\ runErr = "nil"
    /\ call = [kind |-> "insert", dur |-> 2]
    /\ mpc = "collwait"
    /\ retval = NoResult
    /\ \E S \in SampleSets :
         /\ res = <<[newResult("insert", 0, 2) EXCEPT
                       !.samples = S, !.Ops = Len(S),
                       !.closed = TRUE, !.collectorDone = TRUE]>>
         /\ log = <<[EmptyLog EXCEPT !.sent = S, !.closes = 1]>>
    /\ cpc = <<"done">>
    /\ ctx = <<"done">>
    /\ wk = <<[w \in Workers |-> IdleWorker]>>
    /\ iters = 0
    /\ panicked = FALSE
    /\ report = NoReport
    /\ limit = SnapLimit
    /\ backend = "any"
    /\ now = 0
    /\ cap = 0
    /\ bins \in BinsDrawn
    /\ parent = "live"

\* Pretty, line 105: sparkline over the samples of the finalized Result.
PrettySparkline ==
    /\ runPc = "stats"
    /\ mpc = "ret"
    /\ report' = sparkline(retval.samples, bins)
    /\ mpc' = "idle"
    /\ UNCHANGED <<envVars, cfg, table, prefetch, runPc, phase, pass, results, runErr, call,
                   retval, res, cpc, ctx, wk, log, iters, panicked>>

StatsNext ==
    \/ FinalizeReturn
    \/ PrettySparkline

StatsSpec == StatsInit /\ [][StatsNext]_vars

\* ------------------------------- the insert phase of Run, with the clock

\* A second passes.
Tick ==
    /\ now < MaxNow
    /\ now' = now + 1
    /\ UNCHANGED <<limit, backend, cap, bins, parent, cfg, prefetch, runPc, phase, pass,
                   results, runErr, report, call, mpc, RunFrame>>

\* Run has opened the database, set up the schema and fetched the snapshot: it
\* is about to call runPhase for the insert workload, here with batch size 1
\* and a table of one row.
InsertPhaseInit ==
    /\ cfg \in {c \in Configs : c.Engine = "chai" /\ c.TxBatch = 0}
    /\ table = {1}
    /\ prefetch = SnapshotRows(table, SnapLimit)
    /\ runPc = "phase"
    /\ phase = 1
    /\ pass = "none"
    /\ results = <<>>
    /\ runErr = "nil"
    /\ call = NoCall
    /\ mpc = "idle"
    /\ InitHeap
    /\ limit = SnapLimit
    /\ backend \in Backends
    /\ now = 0
    /\ cap = PhaseIters
    /\ bins = PrettyBins
    /\ parent = "live"

\* The steps of Run and of its goroutines up to the return of the insert
\* phase.
InsertPhaseNext ==
    \/ Tick
    \/ RunPhaseStart
    \/ RunPhaseWarmupReturn
    \/ RunPhaseReturn
    \/ CallEnter
    \/ CallSpawn
    \/ CallWait
    \/ FinalizeClose
    \/ FinalizeReturn
    \/ \E c \in Calls : CollectorRecv(c)
    \/ \E c \in Calls : CollectorInc(c)
    \/ \E c \in Calls : CollectorExit(c)
    \/ \E c \in Calls : DeadlineFire(c)
    \/ \E c \in Calls, w \in Workers : InsertNewGenerator(c, w)
    \/ \E c \in Calls, w \in Workers : LoopCheck(c, w)
    \/ \E c \in Calls, w \in Workers : InsertBegin(c, w)
    \/ \E c \in Calls, w \in Workers : InsertPrepare(c, w)
    \/ \E c \in Calls, w \in Workers : InsertSlot(c, w)
    \/ \E c \in Calls, w \in Workers : InsertSend(c, w)
    \/ \E c \in Calls, w \in Workers : InsertCommit(c, w)

InsertPhaseSpec == InsertPhaseInit /\ [][InsertPhaseNext]_vars

\* ------------------------------------------ FetchKeySnapshot, called alone

\* The tables drawn: any set of rows with keys in 1..MaxRows.
SnapTables == SUBSET (1..MaxRows)

\* FetchKeySnapshot is about to be called with limit `limit`.
SnapshotInit ==
    /\ cfg = [Engine |-> "chai", Concurrency |-> 0, Warmup |-> 0, Duration |-> 2,
              TxBatch |-> 1]
    /\ table \in SnapTables
    /\ limit \in 0..MaxLimit
    /\ backend \in Backends
    /\ prefetch = <<>>
    /\ runPc = "fetch"
    /\ phase = 0
    /\ pass = "none"
    /\ results = <<>>
    /\ runErr = "nil"
    /\ call = NoCall
    /\ mpc = "idle"
    /\ InitHeap
    /\ now = 0
    /\ cap = 0
    /\ bins = PrettyBins
    /\ parent = "live"

\* The call returns its keys and its error.
SnapshotCall ==
    /\ runPc = "fetch"
    /\ \E r \in FetchKeySnapshot(table, limit) :
         /\ prefetch' = r.keys
         /\ runErr' = r.err
    /\ runPc' = "fetched"
    /\ UNCHANGED <<envVars, cfg, phase, pass, results, call, mpc, report, RunFrame>>

SnapshotNext == SnapshotCall

SnapshotSpec == SnapshotInit /\ [][SnapshotNext]_vars

\* ------------------------------------------------------------ properties

\* The workers of call c that have been spawned and have not returned.
LiveWorkers(c) == {w \in Workers : wk[c][w].pc \notin {"none", "done"}}

\* C1: in every run function and on every return path the intake channel is
\* closed exactly once, only after every worker of the call has exited, and
\* no worker ever sends on the closed channel (no goroutine panics).
ClosedOnceAfterWorkers ==
    /\ ~panicked
    /\ \A c \in DOMAIN res :
         /\ log[c].closes <= 1
         /\ res[c].closed <=> (log[c].closes = 1)
         /\ res[c].closed => LiveWorkers(c) = {}
         /\ res[c].closed /\ c = cur => mpc \in {"collwait", "ret", "idle"}
         /\ log[c].finalized => res[c].closed

\* C1 witness: a channel closed after two workers ran and samples were sent.
ClosedAfterTwoWorkers ==
    \E c \in DOMAIN res :
        /\ res[c].closed
        /\ \A w \in Workers : wk[c][w].pc = "done"
        /\ Len(log[c].sent) >= 1
        /\ log[c].errs >= 1

\* C2: when finalize computes the percentiles the retained sample set holds
\* exactly one entry per addLatency call of the run, in the order of the
\* sends, nothing is left in the channel, and Ops is the size of that set.
NoSampleLost ==
    \A c \in DOMAIN res :
        log[c].finalized =>
            /\ res[c].samples = log[c].sent
            /\ res[c].latCh = <<>>
            /\ res[c].Ops = Len(res[c].samples)
            /\ (c = cur /\ mpc = "ret" =>
                    retval.samples = log[c].sent /\ retval.Ops = Len(log[c].sent))

\* C2 witness: finalize has returned for a run of two samples, one of which
\* was still buffered in the channel when it was closed.
FinalizedWithBufferedSample ==
    \E c \in DOMAIN res :
        /\ log[c].finalized
        /\ log[c].bufAtClose >= 1
        /\ Len(log[c].sent) >= 2

\* C3: once the deadline of a run has fired no worker issues a new backend
\* operation.  The operation a worker was about to issue when the deadline
\* fired is granted as the one in flight; any call after it is a new one.
NoNewOpAfterDeadline ==
    \A c \in DOMAIN log : ~log[c].lateNew

\* The goroutines of call c that are still running: its workers and its
\* collector.
LiveGoroutines(c) ==
    LiveWorkers(c) \cup (IF cpc[c] = "done" THEN {} ELSE {"collector"})

\* The workload the c-th call of a Run belongs to, under the Run's warmup
\* setting: two calls per workload with a warmup, one without.
WorkloadOfCall(c) ==
    IF cfg.Warmup > 0 THEN Kinds[(c + 1) \div 2] ELSE Kinds[c]

\* C4: workloads never overlap.  The live workers and the live collector
\* belong to the latest pass only; a pass is entered only when every
\* goroutine of the earlier passes has terminated; the passes come in the
\* order insert, select, range, update, delete.
PassesNeverOverlap ==
    /\ \A c \in DOMAIN res : c < cur => LiveGoroutines(c) = {}
    /\ mpc \in {"entry", "idle", "ret"} => \A c \in DOMAIN res : LiveGoroutines(c) = {}
    /\ \A c \in DOMAIN res : res[c].Workload = WorkloadOfCall(c)

\* C4 witness: a worker of the last delete pass is running after a worker of
\* an earlier pass had run.
LaterPassRunning ==
    /\ cur = 2 * Len(Kinds)
    /\ LiveWorkers(cur) # {}
    /\ \E c \in DOMAIN res : c < cur /\ log[c].calls > 0

\* The call whose Result Run retains for workload i.
MeasuredCall(i) == IF cfg.Warmup > 0 THEN 2 * i ELSE i

\* What results[i] must be when it holds the measured pass only.
RetainsMeasuredPass(i) ==
    LET c == MeasuredCall(i)
    IN  /\ results[i].Workload = Kinds[i]
        /\ results[i].Duration = cfg.Duration
        /\ results[i].Ops = Len(log[c].sent)
        /\ results[i].Errors = log[c].errs
        /\ results[i].samples = log[c].sent

\* C5 as stated: every workload gets a warmup pass and then a measured pass
\* of the same run function, and the retained Measurement holds the measured
\* pass only.
WarmupPassAlwaysRuns ==
    /\ \A c \in DOMAIN res :
         /\ res[c].Workload = Kinds[(c + 1) \div 2]
         /\ res[c].Duration = IF c % 2 = 1 THEN cfg.Warmup ELSE cfg.Duration
    /\ \A i \in DOMAIN results :
         /\ 2 * i \in DOMAIN res
         /\ results[i].Ops = Len(log[2 * i].sent)
         /\ results[i].Errors = log[2 * i].errs
         /\ results[i].samples = log[2 * i].sent

\* C5 amended: with cfg.Warmup > 0 every workload gets a warmup pass and then
\* a measured pass of the same run function; with cfg.Warmup <= 0 only the
\* measured pass.  Either way the retained Measurement holds the measured
\* pass only.
WarmupThenMeasured ==
    /\ \A c \in DOMAIN res :
         /\ res[c].Workload = WorkloadOfCall(c)
         /\ res[c].Duration =
              IF cfg.Warmup > 0 /\ c % 2 = 1 THEN cfg.Warmup ELSE cfg.Duration
    /\ \A i \in DOMAIN results : RetainsMeasuredPass(i)
    /\ mpc = "entry" /\ pass = "measured" /\ cfg.Warmup > 0 =>
         /\ cur % 2 = 1
         /\ res[cur].Workload = call.kind

\* C5 witness: Run is over, a warmup pass had recorded an error or a sample,
\* and the Measurement retained for that workload is empty.
WarmupDiscarded ==
    /\ runPc = "done"
    /\ cfg.Warmup > 0
    /\ \E i \in DOMAIN results :
         /\ res[2 * i - 1].Ops + res[2 * i - 1].Errors > 0
         /\ results[i].Ops = 0
         /\ results[i].Errors = 0

\* C6: Run returns an error, and no measurement, only for a failed open,
\* schema initialization or snapshot, and then no pass has run; otherwise it
\* returns nil and the five measurements in order, whatever failed inside
\* the workloads.
RunErrors ==
    {"unknown engine", "open failed", "unsupported engine", "schema failed",
     "query failed", "snapshot is empty"}

RunFailsOnlyInSetup ==
    /\ runPc \in {"open", "schema", "snapshot", "phase", "done", "failed"}
    /\ runPc = "failed" =>
         /\ runErr \in RunErrors
         /\ results = <<>>
         /\ res = <<>>
    /\ runPc # "failed" => runErr = "nil"
    /\ runPc = "done" =>
         /\ Len(results) = 5
         /\ \A i \in 1..5 : results[i].Workload = Kinds[i]
         /\ ~panicked
    /\ runPc = "phase" => Len(results) = phase - 1 \/ (Len(results) = phase /\ mpc = "idle")

\* C6 witness: Run has returned five measurements although operations failed.
RunDoneDespiteErrors ==
    /\ runPc = "done"
    /\ runErr = "nil"
    /\ \E i \in DOMAIN results : results[i].Errors > 0

\* v is the element at 0-based index k of the ascending arrangement of S:
\* it occurs in S, at most k elements are smaller and more than k are not
\* larger.
IsAtSortedIndex(S, v, k) ==
    /\ \E i \in DOMAIN S : S[i] = v
    /\ Cardinality({i \in DOMAIN S : S[i] < v}) <= k
    /\ Cardinality({i \in DOMAIN S : S[i] <= v}) > k

\* C7: for every non-empty sample set, after finalize P50 <= P95 <= P99 and
\* each percentile is the element at index floor((n-1)*q) of the sorted
\* samples, q = 0.50, 0.95, 0.99.
PercentilesAreSortedRanks ==
    \A c \in DOMAIN res :
        log[c].finalized /\ res[c].samples # <<>> =>
            LET S == res[c].samples
                n == Len(S)
            IN  /\ res[c].P50 <= res[c].P95
                /\ res[c].P95 <= res[c].P99
                /\ IsAtSortedIndex(S, res[c].P50, ((n - 1) * 50) \div 100)
                /\ IsAtSortedIndex(S, res[c].P95, ((n - 1) * 95) \div 100)
                /\ IsAtSortedIndex(S, res[c].P99, ((n - 1) * 99) \div 100)

\* C7 witness: a finalized Result whose three percentiles differ.
ThreeDistinctPercentiles ==
    \E c \in DOMAIN res :
        /\ log[c].finalized
        /\ res[c].P50 < res[c].P95
        /\ res[c].P95 < res[c].P99

\* C8: for an empty sample set finalize leaves the three percentiles zero
\* and sparkline returns zero min, zero max and the empty string.
EmptySamplesGiveZero ==
    /\ \A c \in DOMAIN res :
         log[c].finalized /\ res[c].samples = <<>> =>
             res[c].P50 = 0 /\ res[c].P95 = 0 /\ res[c].P99 = 0
    /\ mpc \in {"ret", "idle"} /\ retval.samples = <<>> =>
         retval.P50 = 0 /\ retval.P95 = 0 /\ retval.P99 = 0
    /\ report # NoReport /\ retval.samples = <<>> =>
         report = [min |-> 0, max |-> 0, spark |-> <<>>]

\* C8 witness: sparkline has been applied to a finalized empty sample set.
EmptySparklineRendered ==
    /\ log[1].finalized
    /\ retval.samples = <<>>
    /\ report = [min |-> 0, max |-> 0, spark |-> <<>>]

\* C9: the percentiles of a Result are zero until finalize has returned;
\* from then on its Ops, Errors, percentiles and samples never change.
PercentilesZeroThenFrozen ==
    /\ [](\A c \in DOMAIN res :
            ~log[c].finalized => res[c].P50 = 0 /\ res[c].P95 = 0 /\ res[c].P99 = 0)
    /\ [][\A c \in DOMAIN res :
            log[c].finalized => Measurement(res'[c]) = Measurement(res[c])]_vars

\* C9 witness: a finalized Result with samples and non-zero percentiles
\* while a worker of a later pass is running.
FinalizedWhileLaterPassRuns ==
    \E c \in DOMAIN res :
        /\ c < cur
        /\ log[c].finalized
        /\ res[c].P50 > 0
        /\ LiveWorkers(cur) # {}

\* C10: select, update and delete with no key, and range with fewer than
\* two keys, return a finalized all-zero Measurement without spawning a
\* worker, calling the backend or arming the deadline.
TooFewKeys(kind, keys) ==
    \/ kind \in {"select", "update", "delete"} /\ Len(keys) = 0
    \/ kind = "range" /\ Len(keys) < 2

SmallSnapshotShortCircuits ==
    \A c \in DOMAIN res :
        TooFewKeys(res[c].Workload, prefetch) =>
            /\ \A w \in Workers : wk[c][w].pc = "none"
            /\ log[c].calls = 0
            /\ log[c].mainCalls = 0
            /\ ctx[c] = "none"
            /\ res[c].Ops = 0 /\ res[c].Errors = 0 /\ res[c].samples = <<>>
            /\ res[c].P50 = 0 /\ res[c].P95 = 0 /\ res[c].P99 = 0
            /\ runPc = "returned" =>
                 /\ log[c].finalized
                 /\ results[1] = [NoResult EXCEPT !.Workload = res[c].Workload,
                                                  !.Concurrency = cfg.Concurrency,
                                                  !.Duration = call.dur]

\* C10 witness: a range call with one key has returned.
RangeWithOneKeyReturned ==
    /\ runPc = "returned"
    /\ call.kind = "range"
    /\ Len(prefetch) = 1
    /\ cfg.Concurrency > 0
    /\ results[1].Ops = 0

\* ------------------------------------------------------------------ C11

\* The keys are strictly descending (so distinct) keys of the table.
DescendingKeysOf(keys, tbl) ==
    /\ \A i \in DOMAIN keys : keys[i] \in tbl
    /\ \A i, j \in DOMAIN keys : i < j => keys[i] > keys[j]

\* C11 as stated: once its read has succeeded, FetchKeySnapshot with limit n
\* against a table of r rows returns, without error, min(n, r) distinct keys
\* in descending order when r > 0, and the empty-snapshot error with no keys
\* when r = 0.
SnapshotOfRowsSucceeds ==
    (runPc = "fetched" /\ runErr # "query failed") =>
        LET r == Cardinality(table)
        IN  /\ r > 0 => /\ runErr = "nil"
                        /\ Len(prefetch) = (IF limit < r THEN limit ELSE r)
                        /\ DescendingKeysOf(prefetch, table)
            /\ r = 0 => runErr = "snapshot is empty" /\ prefetch = <<>>

\* C11 amended: the first part holds for limit n >= 1; with n = 0 the read
\* yields no row and the call returns the empty-snapshot error for any table.
SnapshotIsMinDescending ==
    (runPc = "fetched" /\ runErr # "query failed") =>
        LET r == Cardinality(table)
        IN  /\ (r > 0 /\ limit >= 1) =>
                   /\ runErr = "nil"
                   /\ Len(prefetch) = (IF limit < r THEN limit ELSE r)
                   /\ DescendingKeysOf(prefetch, table)
            /\ (r = 0 \/ limit = 0) =>
                   runErr = "snapshot is empty" /\ prefetch = <<>>

\* A snapshot cut short by the limit: two keys out of four rows.
SnapshotCutByLimit ==
    /\ runPc = "fetched"
    /\ runErr = "nil"
    /\ Cardinality(table) = 4
    /\ limit = 2
    /\ Len(prefetch) = 2

\* ------------------------------------------------------------------ C12

\* C12: every range query is issued with lower bound <= upper bound: for the
\* two keys a and b a worker drew, in either order, its bounds are
\* (min(a, b), max(a, b)).
RangeBoundsNormalized ==
    \A c \in DOMAIN wk, w \in Workers :
        wk[c][w].q # <<>> =>
            LET a  == wk[c][w].q[1]
                b  == wk[c][w].q[2]
                lo == wk[c][w].q[3]
                hi == wk[c][w].q[4]
            IN  /\ lo <= hi
                /\ {lo, hi} = {a, b}

\* A range query built from a first key greater than the second has been
\* issued and answered.
RangeDrawnDescending ==
    \E c \in DOMAIN wk, w \in Workers :
        /\ Kind(c) = "range"
        /\ wk[c][w].pc = "send"
        /\ wk[c][w].q # <<>>
        /\ wk[c][w].q[1] > wk[c][w].q[2]
        /\ wk[c][w].q[3] < wk[c][w].q[4]

\* ------------------------------------------------------------------ C13

RECURSIVE GensUpTo(_)
\* The number of identifiers generated in the calls 1..n.
GensUpTo(n) == IF n = 0 THEN 0 ELSE log[n].gens + GensUpTo(n - 1)

\* C13: no two identifiers generated for insert writes during one Run are
\* equal, across the workers and across the warmup and the measured insert
\* pass: the identifiers generated are as many as the generations.
GeneratedIdsDistinct ==
    Cardinality(UNION {log[c].ids : c \in DOMAIN log}) = GensUpTo(Len(log))

\* ------------------------------------------------------------------ C14

\* C14: when every backend call and every identifier generation succeeds,
\* the finalized Measurement of every workload has Errors = 0, however the
\* deadline falls among the operations.
NoErrorsWhenBackendSucceeds ==
    \A c \in DOMAIN log :
        (backend = "ok" /\ log[c].finalized) => res[c].Errors = 0

\* ------------------------------------------------------------------ C15

\* C15: when every backend operation fails, the finalized Measurement of
\* every workload has Ops = 0, no sample and zero percentiles, and Errors
\* equals the number of operations attempted.
AllFailuresCountedNoSamples ==
    \A c \in DOMAIN log :
        (backend = "fail" /\ log[c].finalized) =>
            /\ res[c].Ops = 0
            /\ res[c].samples = <<>>
            /\ res[c].P50 = 0 /\ res[c].P95 = 0 /\ res[c].P99 = 0
            /\ res[c].Errors = log[c].calls + log[c].mainCalls

\* An insert pass against the failing backend has been finalized after two
\* attempts.
TwoFailedAttemptsFinalized ==
    \E c \in DOMAIN log :
        /\ backend = "fail"
        /\ log[c].finalized
        /\ Kind(c) = "insert"
        /\ log[c].calls = 2
        /\ res[c].Errors = 2

\* ------------------------------------------------------------------ C16

\* C16: in the insert workload a failure to begin the transaction or to
\* prepare the statement aborts the iteration (the worker is back at the top
\* of its loop, no identifier generated, no commit attempted) and increments
\* Errors by exactly one.
BeginPrepareFailureCountedOnce ==
    [][\A c \in DOMAIN wk, w \in Workers :
          (wk[c][w].pc \in {"begin", "prepare"} /\ wk'[c][w].pc = "check") =>
              /\ log'[c].gens = log[c].gens
              /\ log'[c].commits = log[c].commits
              /\ res'[c].Errors = res[c].Errors + 1]_vars

\* ------------------------------------------------------------------ C17

\* C17: in the update and delete workloads an operation whose drawn key is no
\* longer in the table is counted as an error, gives no latency sample, and
\* leaves the worker in its loop.
MissingKeyCountedAsError ==
    [][\A c \in DOMAIN wk, w \in Workers :
          (/\ Kind(c) \in {"update", "delete"}
           /\ wk[c][w].pc = "op"
           /\ wk'[c][w].out = "norow") =>
              /\ res'[c].Errors = res[c].Errors + 1
              /\ wk'[c][w].pc = "check"]_vars

\* ------------------------------------------------------------------ C18

\* C18: in every workload a failed scan of a returned row is recorded as one
\* increment of Errors and the operation gives no latency sample.
FailedScanCountedAsError ==
    [][\A c \in DOMAIN wk, w \in Workers :
          (wk[c][w].pc = "op" /\ wk'[c][w].out = "scanfail") =>
              /\ res'[c].Errors = res[c].Errors + 1
              /\ wk'[c][w].pc # "send"]_vars

\* ------------------------------------------------------------------ C19

\* Whether the query/exec call of an operation that came to `out` returned
\* without error (for the point select: the query with its scan).
CallSucceeded(kind, out) ==
    \/ out = "ok"
    \/ kind \in {"update", "delete"} /\ out = "norow"
    \/ kind = "range" /\ out = "scanfail"

\* Worker w of call c issues an operation in this step: a point select, a
\* range query, an update, a delete, or the exec of one insert write.
IssuesOperation(c, w) ==
    /\ wk'[c][w] # wk[c][w]
    /\ \/ wk[c][w].pc = "op"
       \/ wk[c][w].pc = "slot" /\ log'[c].calls = log[c].calls + 1

\* C19: every issued operation is recorded exactly once: if its call
\* succeeded, as one latency sample (handed to addLatency once, and in Ops
\* and the samples after finalize) and not in Errors; if it failed, as one
\* increment of Errors and no sample.
RecordedExactlyOnce ==
    /\ [](\A c \in DOMAIN log :
            log[c].finalized =>
                res[c].Ops = Len(log[c].sent) /\ res[c].samples = log[c].sent)
    /\ [][\A c \in DOMAIN wk, w \in Workers :
            /\ IssuesOperation(c, w) =>
                 IF CallSucceeded(Kind(c), wk'[c][w].out)
                 THEN /\ wk'[c][w].pc = "send"
                      /\ res'[c].Errors = res[c].Errors
                      /\ log'[c].sent = log[c].sent
                 ELSE /\ wk'[c][w].pc # "send"
                      /\ res'[c].Errors = res[c].Errors + 1
                      /\ log'[c].sent = log[c].sent
            /\ (wk[c][w].pc = "send" /\ wk'[c][w].pc # "send") =>
                 /\ log'[c].sent = Append(log[c].sent, wk[c][w].lat)
                 /\ res'[c].Errors = res[c].Errors]_vars

\* A pass with one failed and one successful operation has been finalized.
OneSampleOneErrorFinalized ==
    \E c \in DOMAIN log :
        /\ log[c].finalized
        /\ Kind(c) = "update"
        /\ log[c].calls = 2
        /\ res[c].Ops = 1
        /\ res[c].Errors = 1

\* ------------------------------------------------------------------ C20

\* The batch size B of the run: cfg.TxBatch, or 1 when that is less.
BatchSize == IF cfg.TxBatch < 1 THEN 1 ELSE cfg.TxBatch

\* The workers of call c that are inside a transaction with a prepared
\* statement.
InBatch(c) ==
    {w \in Workers : Kind(c) = "insert" /\ wk[c][w].pc \in {"slot", "send"}}

\* C20: in an insert iteration whose begin and prepare succeeded, exactly B
\* write slots are processed, one after the other from the first; a write
\* that fails (or whose identifier cannot be generated) increments Errors
\* and the loop goes on to the next slot in the same transaction; a write
\* that succeeds is sent as one sample; and one commit is attempted, after
\* slot B.
BatchSharesOneCommit ==
    /\ [](\A c \in DOMAIN wk :
            /\ log[c].txs = log[c].commits + Cardinality(InBatch(c))
            /\ \A w \in InBatch(c) :
                 /\ wk[c][w].slot >= 1
                 /\ wk[c][w].slot <= BatchSize + 1
                 /\ wk[c][w].pc = "send" => wk[c][w].slot <= BatchSize)
    /\ [][\A c \in {i \in DOMAIN wk : Kind(i) = "insert"}, w \in Workers :
            LET a == wk[c][w]
                b == wk'[c][w]
            IN  /\ (a.pc = "prepare" /\ b.pc = "slot") => b.slot = 1
                /\ (a.pc = "slot" /\ b.pc = "slot" /\ b # a) =>
                       /\ a.slot <= BatchSize
                       /\ b.slot = a.slot + 1
                       /\ res'[c].Errors = res[c].Errors + 1
                       /\ log'[c].commits = log[c].commits
                /\ (a.pc = "slot" /\ b.pc = "send") =>
                       /\ a.slot <= BatchSize
                       /\ b.slot = a.slot
                       /\ res'[c].Errors = res[c].Errors
                /\ (a.pc = "send" /\ b.pc = "slot") =>
                       /\ b.slot = a.slot + 1
                       /\ log'[c].sent = Append(log[c].sent, a.lat)
                /\ (a.pc \in {"slot", "send"} /\ b.pc \notin {"slot", "send"}) =>
                       /\ a.pc = "slot"
                       /\ a.slot = BatchSize + 1
                       /\ b.pc = "check"
                       /\ log'[c].commits = log[c].commits + 1]_vars

\* With B = 2 and one worker: the first write of a batch failed and the
\* second has been issued in the same transaction and succeeded.
SecondWriteAfterFailedFirst ==
    \E c \in DOMAIN wk :
        /\ Kind(c) = "insert"
        /\ cfg.Concurrency = 1
        /\ cfg.TxBatch = 2
        /\ wk[c][0].pc = "send"
        /\ wk[c][0].slot = 2
        /\ log[c].txs = 1
        /\ log[c].calls = 4
        /\ res[c].Errors = 1

\* ------------------------------------------------------------------ C21

\* C21: a generator failure in the insert workload (the generator cannot be
\* constructed, or an identifier cannot be generated) is counted as one
\* error and does not end the worker: it stays in its loop.
GeneratorFailureKeepsWorker ==
    [][\A c \in DOMAIN wk, w \in Workers :
          (wk'[c][w] # wk[c][w] /\ wk'[c][w].out = "genfail") =>
              /\ res'[c].Errors = res[c].Errors + 1
              /\ wk'[c][w].pc # "done"]_vars

\* ------------------------------------------------------------------ C22

\* C22: a run function that reaches its spawn loop leaves it with exactly
\* cfg.Concurrency workers spawned; workers are spawned in that loop only and
\* never restarted; the call's one cancellation signal, once fired, stays
\* fired; and a worker leaves its loop only when that signal has fired.
WorkersLoopUntilSignal ==
    [][/\ (mpc = "spawn" /\ mpc' # "spawn") => Spawned(cur) = cfg.Concurrency
       /\ \A c \in DOMAIN wk, w \in Workers :
            /\ (wk[c][w].pc = "none" /\ wk'[c][w].pc # "none") =>
                   c = cur /\ mpc = "spawn" /\ Spawned(c) < cfg.Concurrency
            /\ wk[c][w].pc = "done" => wk'[c][w].pc = "done"
            /\ ctx[c] = "done" => ctx'[c] = "done"
            /\ (wk[c][w].pc # "done" /\ wk'[c][w].pc = "done") => ctx[c] = "done"]_vars

\* ------------------------------------------------------------------ C23

\* C23: with every backend call returning and every goroutine scheduled, a
\* run function terminates: once the deadline has fired every worker exits,
\* a worker waiting to send on the intake channel gets its sample in, the
\* collector ends once the channel is closed, and finalize returns to the
\* caller.
RunFunctionTerminates ==
    /\ \A w \in Workers :
         (Len(ctx) = 1 /\ ctx[1] = "done")
            ~> (Len(wk) = 1 /\ wk[1][w].pc \in {"none", "done"} /\ mpc # "spawn")
    /\ \A w \in Workers :
         (Len(wk) = 1 /\ wk[1][w].pc = "send")
            ~> (Len(wk) = 1 /\ wk[1][w].pc # "send" /\ ~panicked)
    /\ (Len(res) = 1 /\ res[1].closed) ~> (Len(cpc) = 1 /\ cpc[1] = "done")
    /\ (mpc = "close") ~> (mpc = "ret" /\ Len(log) = 1 /\ log[1].finalized)
    /\ <>(runPc = "returned")

\* Witness: the deadline has fired while one worker waits to send on the
\* full channel and the other is still in its loop.
BlockedSenderAfterDeadline ==
    /\ Len(res) = 1
    /\ ctx[1] = "done"
    /\ Len(res[1].latCh) = ChanCap
    /\ \E w, v \in Workers : wk[1][w].pc = "send" /\ wk[1][v].pc \in {"op", "begin", "slot"}

\* ------------------------------------------------------------------ C24

\* C24: the key snapshot is read once per Run, before the first workload
\* call, and never changes afterwards: every call runs with a snapshot
\* present, the keys a worker draws and the rows a delete removes come from
\* that one sequence in warmup and measured passes alike, and no step that
\* changes the table changes the snapshot.
SnapshotReadOnceShared ==
    /\ [](res # <<>> => prefetch # <<>>)
    /\ [][/\ prefetch' # prefetch =>
               /\ runPc = "snapshot"
               /\ prefetch = <<>>
               /\ res = <<>>
               /\ call = NoCall
               /\ prefetch' = SnapshotRows(table, SnapLimit)
          /\ table' # table =>
               /\ prefetch' = prefetch
               /\ Kind(cur) = "delete"
               /\ (table \ table') \subseteq Range(prefetch)
          /\ \A c \in DOMAIN wk, w \in Workers :
               (wk'[c][w].q # wk[c][w].q /\ wk'[c][w].q # <<>>) =>
                   /\ Kind(c) = "range"
                   /\ Range(wk'[c][w].q) \subseteq Range(prefetch)]_vars

\* Witness: the measured delete call runs with the snapshot taken at the
\* start although its warmup call has removed a snapshot key from the table.
MeasuredDeleteOnChangedTable ==
    /\ runPc = "phase"
    /\ phase = 5
    /\ pass = "measured"
    /\ mpc = "spawn"
    /\ Kind(cur) = "delete"
    /\ \E i \in DOMAIN prefetch : prefetch[i] \notin table
    /\ \E w \in Workers : wk[cur][w].pc = "check"

\* ------------------------------------------------------------------ C25

\* C25: the sample set and Ops are written by the collector alone, one
\* sample per step in the order of the channel: the retained samples followed
\* by the buffered ones are the samples sent, Ops lags the sample count by
\* one exactly while the collector is between its append and its increment,
\* a step that appends a sample or increments Ops is a collector step that
\* moves no worker, and a worker step changes at most Errors (by one) or the
\* channel (by the one sample it enqueues).
CollectorOwnsSamples ==
    /\ [](\A c \in DOMAIN res :
            /\ res[c].samples \o res[c].latCh = log[c].sent
            /\ Len(res[c].samples) - res[c].Ops = IF cpc[c] = "inc" THEN 1 ELSE 0)
    /\ [][\A c \in DOMAIN res :
            /\ res'[c].samples # res[c].samples =>
                 /\ cpc[c] = "run" /\ cpc'[c] = "inc"
                 /\ res[c].latCh # <<>>
                 /\ res'[c].samples = Append(res[c].samples, Head(res[c].latCh))
                 /\ res'[c].latCh = Tail(res[c].latCh)
                 /\ res'[c].Ops = res[c].Ops
                 /\ wk' = wk
            /\ res'[c].Ops # res[c].Ops =>
                 /\ cpc[c] = "inc" /\ cpc'[c] = "run"
                 /\ res'[c].Ops = res[c].Ops + 1
                 /\ res'[c].samples = res[c].samples
                 /\ wk' = wk
            /\ wk'[c] # wk[c] =>
                 /\ res'[c].samples = res[c].samples
                 /\ res'[c].Ops = res[c].Ops
                 /\ cpc' = cpc
                 /\ \/ /\ res'[c].latCh = res[c].latCh
                       /\ res'[c].Errors \in {res[c].Errors, res[c].Errors + 1}
                    \/ /\ res'[c].Errors = res[c].Errors
                       /\ \E w \in Workers :
                            /\ wk[c][w].pc = "send"
                            /\ res'[c].latCh = Append(res[c].latCh, wk[c][w].lat)]_vars

\* Witness: the collector has appended its second sample and not yet counted
\* it while a worker is about to enqueue another.
CollectorBetweenAppendAndCount ==
    \E c \in DOMAIN res :
        /\ cpc[c] = "inc"
        /\ Len(res[c].samples) = 2
        /\ res[c].Ops = 1
        /\ \E w \in Workers : wk[c][w].pc = "send"

\* ------------------------------------------------------------------ C26

\* The samples as sparkline buckets them: sorted, non-positive ones raised to
\* the smallest positive duration.
ClampedSorted(samples) ==
    LET sorted == SortAsc(samples)
    IN  [i \in DOMAIN sorted |-> IF sorted[i] <= 0 THEN 1 ELSE sorted[i]]

\* C26: for a non-empty sample set and bins > 0 sparkline returns exactly
\* `bins` glyphs; if the 1st and the 99th percentile of the clamped sorted
\* samples are equal every glyph is the full block; otherwise a bucket with
\* the highest count gets the full block, an empty bucket the lowest glyph,
\* and every bucket the level nearest to 7 * count / highest count.
SparklineShape ==
    (runPc = "stats" /\ mpc = "idle" /\ retval.samples # <<>> /\ bins > 0) =>
        LET s      == ClampedSorted(retval.samples)
            p1     == quantileDur(s, 1)
            p99    == quantileDur(s, 99)
            cnt(b) == Cardinality({i \in DOMAIN s :
                          BucketOf(s[i], LnMicro(p1), LnMicro(p99), bins) = b})
            top    == CHOOSE m \in {cnt(b) : b \in 0..(bins - 1)} :
                          \A b \in 0..(bins - 1) : cnt(b) <= m
        IN  /\ Len(report.spark) = bins
            /\ p1 = p99 => \A i \in 1..bins : report.spark[i] = FullBlock
            /\ p1 # p99 =>
                 \A b \in 0..(bins - 1) :
                    LET level == report.spark[b + 1]
                    IN  /\ level \in 0..FullBlock
                        /\ cnt(b) = top => level = FullBlock
                        /\ cnt(b) = 0 => level = 0
                        /\ 2 * top * level <= 2 * FullBlock * cnt(b) + top
                        /\ 2 * FullBlock * cnt(b) + top < 2 * top * (level + 1)

\* Witness: a sample set with a non-positive sample rendered in PrettyBins
\* glyphs, among them the full block, an intermediate level and the lowest.
SparklineWithThreeLevels ==
    /\ runPc = "stats"
    /\ mpc = "idle"
    /\ bins = PrettyBins
    /\ \E i \in DOMAIN retval.samples : retval.samples[i] <= 0
    /\ Len(report.spark) = PrettyBins
    /\ \E i, j, k \in DOMAIN report.spark :
         /\ report.spark[i] = FullBlock
         /\ report.spark[j] \in 1..(FullBlock - 1)
         /\ report.spark[k] = 0

\* ------------------------------------------------------------------ C27

\* Calls of the run function one runPhase makes.
CallsPerPhase == IF cfg.Warmup > 0 THEN 2 ELSE 1

\* Calls of the run function entered so far.
CallsEntered == Len(res) + (IF mpc = "entry" THEN 1 ELSE 0)

\* C27: runPhase calls the run function twice when warmup > 0, with the
\* warmup duration and then the measured duration, and once, with the
\* measured duration, when warmup <= 0; what it returns, and Run appends, is
\* the Result of the last of these calls.
RunPhaseCallsAndReturn ==
    /\ [](runPc \in {"phase", "done"} =>
            CallsEntered = CallsPerPhase * Len(results)
                           + (IF mpc = "idle" THEN 0
                              ELSE IF pass = "warmup" THEN 1 ELSE CallsPerPhase))
    /\ [][results' # results =>
            /\ results' = Append(results, Measurement(res[cur]))
            /\ cur = CallsPerPhase * Len(results')
            /\ res[cur].Duration = cfg.Duration
            /\ log[cur].finalized
            /\ cfg.Warmup > 0 =>
                 /\ res[cur - 1].Duration = cfg.Warmup
                 /\ res[cur - 1].Workload = res[cur].Workload
                 /\ log[cur - 1].finalized]_vars

\* Witness: Run is over after warmup and measured calls of all five
\* workloads, the first two calls made with the warmup and the measured
\* duration.
TenCallsFiveResults ==
    /\ runPc = "done"
    /\ cfg.Warmup > 0
    /\ Len(res) = 10
    /\ Len(results) = 5
    /\ res[1].Duration = cfg.Warmup
    /\ res[2].Duration = cfg.Duration

\* ------------------------------------------------------------------ C28

CancellationIsNoFailure ==
    /\ [](parent = "cancelled" =>
            /\ \A c \in DOMAIN ctx : ctx[c] # "live"
            /\ runPc \in {"phase", "done"}
            /\ runErr = "nil")
    /\ [][(parent = "cancelled" /\ results' # results) =>
            /\ results' = Append(results, Measurement(res[cur]))
            /\ log[cur].finalized
            /\ res[cur].collectorDone]_vars
    /\ (parent = "cancelled") ~>
            (runPc = "done" /\ Len(results) = Len(Kinds) /\ runErr = "nil")

\* Witness: Run has returned after a cancellation that came while a worker
\* of the first call was in an operation; calls entered after it ran too.
RunDoneAfterCancel ==
    /\ runPc = "done"
    /\ parent = "cancelled"
    /\ Len(results) = 5
    /\ runErr = "nil"
    /\ log[1].calls > 0
    /\ \E c \in DOMAIN res : c > 1 /\ Kind(c) = "delete" /\ log[c].mainCalls = 1

\* ------------------------------------------------------------------ C30

\* C30: a failed commit of the insert workload leaves Ops, Errors, the
\* samples and the channel as they were and sends the worker back to the top
\* of its loop; the samples of the batch's successful writes stay recorded
\* through finalize.
FailedCommitNotRecorded ==
    /\ [](\A c \in DOMAIN log :
            log[c].finalized =>
                /\ res[c].Ops = Len(log[c].sent)
                /\ res[c].samples = log[c].sent
                /\ res[c].Errors = log[c].errs)
    /\ [][\A c \in DOMAIN wk, w \in Workers :
            (wk[c][w].pc = "slot" /\ wk'[c][w].out = "commitfail") =>
                /\ Kind(c) = "insert"
                /\ wk[c][w].slot = BatchSize + 1
                /\ wk'[c][w].pc = "check"
                /\ log'[c].commits = log[c].commits + 1
                /\ res'[c].Ops = res[c].Ops
                /\ res'[c].Errors = res[c].Errors
                /\ res'[c].samples = res[c].samples
                /\ res'[c].latCh = res[c].latCh
                /\ log'[c].sent = log[c].sent
                /\ log'[c].errs = log[c].errs]_vars

\* Witness: the only worker's first batch had a successful write, its sample
\* sent, and then its commit failed; no error is counted.
CommitFailedAfterGoodWrite ==
    \E c \in DOMAIN wk :
        /\ Kind(c) = "insert"
        /\ cfg.Concurrency = 1
        /\ iters = 1
        /\ wk[c][0].pc = "check"
        /\ wk[c][0].out = "commitfail"
        /\ Len(log[c].sent) >= 1
        /\ res[c].Errors = 0

\* ------------------------------------------------------------------ C31

\* The shared statement of call c could not be prepared: the one call the
\* run function itself made has failed and the spawn loop was never reached.
PrepareFailed(c) ==
    /\ Kind(c) # "insert"
    /\ log[c].mainCalls = 1
    /\ ~(c = cur /\ mpc \in {"prepare", "spawn"})
    /\ Spawned(c) = 0
    /\ cfg.Concurrency > 0 \/ log[c].errs > 0

\* The run function of call c has returned.
Returned(c) == c < cur \/ mpc \in {"ret", "idle"}

\* C31: in the select, range, update and delete workloads a failed prepare
\* of the shared statement counts one error and goes straight to finalize:
\* no worker is ever spawned for that call, nothing is sampled, the channel
\* is closed, the collector ends, and the run function returns the finalized
\* Measurement with Errors = 1 and Ops = 0.
PrepareFailureFinalizes ==
    /\ [](\A c \in DOMAIN res :
            PrepareFailed(c) =>
                /\ res[c].Errors = 1
                /\ res[c].Ops = 0
                /\ log[c].sent = <<>>
                /\ log[c].calls = 0
                /\ \A w \in Workers : wk[c][w].pc = "none"
                /\ Returned(c) =>
                     /\ res[c].closed
                     /\ cpc[c] = "done"
                     /\ res[c].collectorDone
                     /\ log[c].closes = 1
                     /\ log[c].finalized
                     /\ ~panicked
                /\ (c = cur /\ mpc = "ret") =>
                     /\ retval = Measurement(res[c])
                     /\ retval.Errors = 1
                     /\ retval.Ops = 0)
    /\ [][(mpc = "prepare" /\ mpc' # "prepare") =>
            /\ call.kind \in {"select", "range", "update", "delete"}
            /\ mpc' \in {"spawn", "close"}
            /\ mpc' = "close" =>
                 /\ res'[cur].Errors = res[cur].Errors + 1
                 /\ res[cur].Errors = 0
                 /\ wk' = wk
                 /\ Spawned(cur) = 0]_vars
    /\ (Len(res) = 1 /\ PrepareFailed(1)) ~>
            (Len(res) = 1 /\ PrepareFailed(1) /\ cpc[1] = "done" /\ runPc = "returned")

\* Witness: a range call with two workers asked for has returned after its
\* shared statement failed to prepare.
RangePrepareFailedReturned ==
    /\ Len(res) = 1
    /\ Kind(1) = "range"
    /\ cfg.Concurrency = MaxConc
    /\ PrepareFailed(1)
    /\ mpc = "ret"
    /\ retval.Errors = 1
    /\ cpc[1] = "done"

====
